---- MODULE Spec2Model ----
(***************************************************************************)
(* Payroll backend (sandadobrenco/payslip): salary calculation, payslip    *)
(* creation, CSV/PDF report generation and the generate -> persist ->      *)
(* send -> archive pipeline of EmailService, as state machines over the    *)
(* relational store (read-committed transactions), the file system and     *)
(* the mail transport.  Money is fixed-point: amounts are in cents,        *)
(* intermediate values in thousandths.                                     *)
(***************************************************************************)
EXTENDS Integers, Sequences, FiniteSets, TLC

\* ------------------------------------------------------------- bounds
NUsers == 1
NPeriods == 1
MaxCalls == 2
MaxEdits == 1
PeriodLen == 7
MaxSends == 2
MaxClock == 2
MaxPdfCalls == 2
MaxEmployees == 3
MaxBonusRequests == 3
MaxDay == 28
MaxThousandths == 30
MaxTeam == 2
MaxQueueCalls == 2
MaxFiles == 3
MaxCents == 3
MaxLockCalls == 8
MaxShortEnd == 6

Users == 1..NUsers
Periods == 1..NPeriods
\* Two transactions run concurrently: the store orders conflicting writes pairwise.
Workers == {"t1", "t2"}

\* Amounts (cents) the data-entry requests of the model choose from.
CompAmounts == {300000, 100001}
BonusAmounts == {20000}

\* Days are numbered from a Monday: weekday 0..4 are Monday..Friday.
PeriodStart(p) == (p - 1) * PeriodLen
PeriodEnd(p) == PeriodStart(p) + PeriodLen - 1
LeaveDates == {PeriodStart(p) : p \in Periods} \cup {PeriodEnd(p) : p \in Periods}

NoRow == [id |-> 0]

VARIABLES
  \* persisted payroll data
  compensation,   \* [Users -> Nat]: Compensation.amount in cents, 0 = no row
  bonuses,        \* set of Bonus rows [user, period, amount]
  unpaidLeave,    \* set of <<user, date>>: AttendanceRecord rows of type UNPAID_LEAVE
  is_locked,      \* [Periods -> BOOLEAN]: PayrollPeriod.is_locked
  payslips,       \* committed Payslip rows
  edits,          \* number of data-entry requests served
  calls,          \* number of service calls started
  \* one generate_payslip call per worker
  pc, cid, cu, cp, argLocked, existedAtCall, breakdown, pending, result,
  \* report distribution
  reports,        \* committed GeneratedReport rows
  mtx,            \* per transaction: the row versions it has written or locked
  disk,           \* report files (CSV, PDF) present in the media directories
  archives,       \* archive files present: [label, ts, by]
  mailed,         \* calls whose e-mail left through the transport
  clock,          \* wall clock
  mcalls,         \* number of distribution requests started
  mw,             \* per worker: the call it runs and what happened in it
  mpre,           \* per worker: the committed rows when its call began
  \* report generators
  gp,             \* the generate_pdf call in progress
  pfiles,         \* files present in the PDF directory
  pclock,         \* the second the file names are stamped with
  pcalls,         \* number of generate_pdf calls started
  gc,             \* the generate_csv call in progress
  \* requests to the REST API and calls of the batch services
  breq,           \* the last request to the Bonus API and its response
  breqs,          \* number of requests to the Bonus API
  cc,             \* a call of calculate / count_business_days / _quantize_money
  team,           \* a call of calculate_for_team
  batch,          \* a call of generate_pdfs_for_team
  qc,             \* a call of queue_csv_to_manager and the task queue
  az,             \* a call of archive_files
  pp              \* a PayrollPeriod object that lock and unlock are called on

dataVars == <<compensation, bonuses, unpaidLeave, is_locked, edits>>
payVars == <<payslips, calls, pc, cid, cu, cp, argLocked, existedAtCall, breakdown, pending, result>>
mailVars == <<reports, mtx, disk, archives, mailed, clock, mcalls, mw, mpre>>
genVars == <<gp, pfiles, pclock, pcalls, gc>>
apiVars == <<breq, breqs, cc, team, batch, qc, az, pp>>
bonusApiVars == <<breq, breqs>>
vars == <<dataVars, payVars, mailVars, genVars, apiVars>>

\* ------------------------------------------------- money and dates
quantize_money_Truncating(m) == m \div 10

\* _quantize_money: Decimal.quantize(0.01, ROUND_HALF_UP) of a value given in
\* thousandths; the result is in cents.  Half-up rounds ties away from zero.
quantize_money(m) == IF m >= 0 THEN (m + 5) \div 10 ELSE -((-m + 5) \div 10)

Weekday_Shifted(d) == (d + 1) % 7

\* date.weekday(): 0 is Monday
Weekday(d) == d % 7

RECURSIVE CountFrom(_, _)
CountFrom(cur, end) ==
  IF cur > end THEN 0
  ELSE (IF Weekday(cur) < 5 THEN 1 ELSE 0) + CountFrom(cur + 1, end)

count_business_days(start, end) == IF start > end THEN 0 ELSE CountFrom(start, end)

RECURSIVE SumAmounts(_)
SumAmounts(S) ==
  IF S = {} THEN 0
  ELSE LET r == CHOOSE x \in S : TRUE IN r.amount + SumAmounts(S \ {r})

\* date__range=(start_date, end_date) on the UNPAID_LEAVE dates of a user
unpaid_days_in_AnyDate(leave, start, end) == Cardinality(leave)

unpaid_days_in(leave, start, end) == Cardinality({d \in leave : d >= start /\ d <= end})

\* SalaryCalculator._count_unpaid_days
count_unpaid_days(u, p) ==
  unpaid_days_in({r[2] : r \in {x \in unpaidLeave : x[1] = u}}, PeriodStart(p), PeriodEnd(p))

\* SalaryCalculator._sum_bonuses
sum_bonuses(u, p) ==
  quantize_money(10 * SumAmounts({b \in bonuses : b.user = u /\ b.period = p}))

daily_rate_Truncated(amount, days) == IF days <= 0 THEN 0 ELSE amount \div days

\* SalaryCalculator._daily_rate: the quotient rounded half-up to cents
daily_rate(amount, days) ==
  IF days <= 0 THEN 0 ELSE (2 * amount + days) \div (2 * days)

\* the arithmetic of SalaryCalculator.calculate on the values it has read
calculate_breakdown(amount, business_days, unpaid_days, bonuses_total) ==
  LET rate == daily_rate(amount, business_days)
      unpaid_deduction == quantize_money(10 * rate * unpaid_days)
  IN [compensation |-> quantize_money(10 * amount),
      bonuses_total |-> bonuses_total,
      unpaid_deduction |-> unpaid_deduction,
      net_total |-> quantize_money(10 * (amount - unpaid_deduction + bonuses_total)),
      business_days |-> business_days,
      unpaid_days |-> unpaid_days]

\* SalaryCalculator.calculate, for a user that has a Compensation
calculate(u, p) ==
  calculate_breakdown(compensation[u],
                      count_business_days(PeriodStart(p), PeriodEnd(p)),
                      count_unpaid_days(u, p),
                      sum_bonuses(u, p))

NoBreakdown == [compensation |-> 0, bonuses_total |-> 0, unpaid_deduction |-> 0,
                net_total |-> 0, business_days |-> 0, unpaid_days |-> 0]

calculate_net_total_Without_Bonuses(c, d, b) == c - d

\* Payslip.calculate_net_total, run by Payslip.save
calculate_net_total(c, d, b) == c - d + b

\* ------------------------------------------- data entry (API, admin)
Descriptions == {"bonus"}

\* CompensationViewSet create/update: one Compensation per user, amount > 0
SetCompensation(u, a) ==
  /\ edits < MaxEdits
  /\ a > 0
  /\ compensation' = [compensation EXCEPT ![u] = a]
  /\ edits' = edits + 1
  /\ UNCHANGED <<bonuses, unpaidLeave, is_locked, payVars, mailVars, genVars, apiVars>>

\* BonusViewSet create through BonusSerializer.validate: rejected for a locked
\* period; (user, period, description) is unique
CreateBonus(u, p, d, a) ==
  /\ edits < MaxEdits
  /\ a > 0
  /\ ~is_locked[p]
  /\ ~\E b \in bonuses : b.user = u /\ b.period = p /\ b.description = d
  /\ bonuses' = bonuses \cup {[user |-> u, period |-> p, description |-> d, amount |-> a]}
  /\ edits' = edits + 1
  /\ UNCHANGED <<compensation, unpaidLeave, is_locked, payVars, mailVars, genVars, apiVars>>

\* AttendanceRecordViewSet create of an UNPAID_LEAVE record; (user, date) is unique
RecordUnpaidLeave(u, d) ==
  /\ edits < MaxEdits
  /\ <<u, d>> \notin unpaidLeave
  /\ unpaidLeave' = unpaidLeave \cup {<<u, d>>}
  /\ edits' = edits + 1
  /\ UNCHANGED <<compensation, bonuses, is_locked, payVars, mailVars, genVars, apiVars>>

\* PayrollPeriod.lock
lock(p) ==
  /\ ~is_locked[p]
  /\ is_locked' = [is_locked EXCEPT ![p] = TRUE]
  /\ UNCHANGED <<compensation, bonuses, unpaidLeave, edits, payVars, mailVars, genVars, apiVars>>

\* PayrollPeriod.unlock
unlock(p) ==
  /\ is_locked[p]
  /\ is_locked' = [is_locked EXCEPT ![p] = FALSE]
  /\ UNCHANGED <<compensation, bonuses, unpaidLeave, edits, payVars, mailVars, genVars, apiVars>>

\* ------------------------------------- SalaryCalculator.generate_payslip
\* Each call runs in its own transaction (@transaction.atomic) on a
\* read-committed store: it reads committed rows, its INSERT waits for a
\* concurrent uncommitted INSERT of the same (user, period) and fails with an
\* IntegrityError when a committed row holds the key (Payslip.unique_together).

\* Payslip.objects.filter(user=user, period=period).exists()
PayslipExists(u, p) == \E r \in payslips : r.user = u /\ r.period = p

\* the INSERT has to wait: another transaction holds an uncommitted row of the key
InsertBlocked(w, u, p) ==
  \E w2 \in Workers \ {w} :
     pending[w2] # NoRow /\ pending[w2].user = u /\ pending[w2].period = p

UniqueViolation_NoConstraint(u, p) == FALSE

\* unique_together = [("user", "period")]
UniqueViolation(u, p) == \E r \in payslips : r.user = u /\ r.period = p

LockRefuses_Never(locked) == FALSE

\* if period.is_locked: raise
LockRefuses(locked) == locked

Finish(w, res) ==
  /\ pc' = [pc EXCEPT ![w] = "done"]
  /\ result' = [result EXCEPT ![w] = res]

\* the call is entered; period.is_locked is the flag of the period object passed in
GP_Begin(w, u, p) ==
  /\ pc[w] = "idle"
  /\ calls < MaxCalls
  /\ calls' = calls + 1
  /\ cid' = [cid EXCEPT ![w] = calls + 1]
  /\ cu' = [cu EXCEPT ![w] = u]
  /\ cp' = [cp EXCEPT ![w] = p]
  /\ argLocked' = [argLocked EXCEPT ![w] = is_locked[p]]
  /\ existedAtCall' = [existedAtCall EXCEPT ![w] = PayslipExists(u, p)]
  /\ IF LockRefuses(is_locked[p])
       THEN Finish(w, "locked")
       ELSE /\ pc' = [pc EXCEPT ![w] = "exists"]
            /\ UNCHANGED result
  /\ UNCHANGED <<genVars, apiVars, mailVars, dataVars, payslips, breakdown, pending>>

GP_CheckExists(w) ==
  /\ pc[w] = "exists"
  /\ IF PayslipExists(cu[w], cp[w])
       THEN Finish(w, "already_exists")
       ELSE /\ pc' = [pc EXCEPT ![w] = "calc"]
            /\ UNCHANGED result
  /\ UNCHANGED <<genVars, apiVars, mailVars, dataVars, payslips, calls, cid, cu, cp, argLocked, existedAtCall, breakdown, pending>>

\* breakdown = self.calculate(user, period); ValueError without a Compensation
GP_Calculate(w) ==
  /\ pc[w] = "calc"
  /\ IF compensation[cu[w]] = 0
       THEN /\ Finish(w, "no_compensation")
            /\ UNCHANGED breakdown
       ELSE /\ breakdown' = [breakdown EXCEPT ![w] = calculate(cu[w], cp[w])]
            /\ pc' = [pc EXCEPT ![w] = "save"]
            /\ UNCHANGED result
  /\ UNCHANGED <<genVars, apiVars, mailVars, dataVars, payslips, calls, cid, cu, cp, argLocked, existedAtCall, pending>>

\* slip.save(): net_total is recomputed, then the row is inserted
GP_Save(w) ==
  /\ pc[w] = "save"
  /\ ~InsertBlocked(w, cu[w], cp[w])
  /\ IF UniqueViolation(cu[w], cp[w])
       THEN /\ Finish(w, "integrity_error")
            /\ UNCHANGED pending
       ELSE /\ pending' = [pending EXCEPT ![w] =
                 [id |-> cid[w], user |-> cu[w], period |-> cp[w],
                  compensation |-> breakdown[w].compensation,
                  unpaid_deduction |-> breakdown[w].unpaid_deduction,
                  bonuses_total |-> breakdown[w].bonuses_total,
                  net_total |-> calculate_net_total(breakdown[w].compensation,
                                           breakdown[w].unpaid_deduction,
                                           breakdown[w].bonuses_total)]]
            /\ pc' = [pc EXCEPT ![w] = "commit"]
            /\ UNCHANGED result
  /\ UNCHANGED <<genVars, apiVars, mailVars, dataVars, payslips, calls, cid, cu, cp, argLocked, existedAtCall, breakdown>>

\* the atomic block is left without an exception: the transaction commits
GP_Commit(w) ==
  /\ pc[w] = "commit"
  /\ payslips' = payslips \cup {pending[w]}
  /\ pending' = [pending EXCEPT ![w] = NoRow]
  /\ Finish(w, "ok")
  /\ UNCHANGED <<genVars, apiVars, mailVars, dataVars, calls, cid, cu, cp, argLocked, existedAtCall, breakdown>>

\* the caller has the outcome; the worker serves the next request
GP_Return(w) ==
  /\ pc[w] = "done"
  /\ pc' = [pc EXCEPT ![w] = "idle"]
  /\ cid' = [cid EXCEPT ![w] = 0]
  /\ cu' = [cu EXCEPT ![w] = 0]
  /\ cp' = [cp EXCEPT ![w] = 0]
  /\ argLocked' = [argLocked EXCEPT ![w] = FALSE]
  /\ existedAtCall' = [existedAtCall EXCEPT ![w] = FALSE]
  /\ breakdown' = [breakdown EXCEPT ![w] = NoBreakdown]
  /\ result' = [result EXCEPT ![w] = "none"]
  /\ UNCHANGED <<genVars, apiVars, mailVars, dataVars, payslips, calls, pending>>

\* ------------------------------------------------- report distribution
\* EmailService over one manager, one employee of that manager and one period:
\* the key of a MANAGER_CSV row is (type, period, manager), that of a USER_PDF
\* row (type, period, user), so within this scenario the type is the key.
\* A row is [id, type, file, sent_at, archived_at]; 0 is NULL; a file is named
\* by the call that generated it.
NoReport == [id |-> 0, type |-> "none", file |-> 0, sent_at |-> 0, archived_at |-> 0]

Idle == [pc |-> "idle", op |-> "none", call |-> 0, rep |-> NoReport, file |-> 0,
         result |-> "none", gen |-> "none", send |-> "none", arch |-> "none",
         interf |-> FALSE, user |-> FALSE, has_email |-> FALSE, to_email |-> FALSE]

Ids(S) == {r.id : r \in S}

\* what a statement of transaction w reads: committed rows and its own writes
Visible(w) == {r \in reports : r.id \notin Ids(mtx[w])} \cup mtx[w]

\* a row lock taken by an UPDATE or SELECT ... FOR UPDATE of another transaction
LockedByOther(w, id) == \E w2 \in Workers \ {w} : id \in Ids(mtx[w2])

\* the write set of w with one more row version
Written(w, row) == {r \in mtx[w] : r.id # row.id} \cup {row}

\* the committed rows once the write set tx is committed
Committed(tx) == {r \in reports : r.id \notin Ids(tx)} \cup tx

\* @transaction.atomic: commit on return, roll back when an exception leaves
CommitsOnExit(raised) == ~raised

\* The call of w ends: rec is its record, res the outcome the caller gets, tx
\* its write set.  Calls in progress note that the committed rows changed.
EndCall(w, rec, res, raised, tx) ==
  LET after == IF CommitsOnExit(raised) THEN Committed(tx) ELSE reports IN
  /\ reports' = after
  /\ mtx' = [mtx EXCEPT ![w] = {}]
  /\ mw' = [x \in Workers |->
             IF x = w THEN [rec EXCEPT !.pc = "done", !.result = res]
             ELSE IF after # reports /\ mw[x].pc # "idle"
                    THEN [mw[x] EXCEPT !.interf = TRUE]
                    ELSE mw[x]]

\* UniqueConstraint(fields=[type, period, manager|user], condition=archived_at IS NULL):
\* the INSERT of a non-archived row waits while another transaction holds an
\* uncommitted change of a row of the key that is, or was, non-archived
InsertWaits(w, type) ==
  \E w2 \in Workers \ {w} : \E r \in mtx[w2] :
     /\ r.type = type
     /\ \/ r.archived_at = 0
        \/ \E q \in reports : q.id = r.id /\ q.archived_at = 0

\* ... and fails with an IntegrityError when a non-archived row of the key is visible
InsertConflicts(w, type) == \E r \in Visible(w) : r.type = type /\ r.archived_at = 0

\* GeneratedReport.mark_sent: sent_at = timezone.now(); save(update_fields=["sent_at"])
mark_sent(row, now) == [row EXCEPT !.sent_at = now]

\* GeneratedReport.mark_archived
mark_archived(row, now) == [row EXCEPT !.archived_at = now]

\* the row with this id as the statement of w sees it
Current(w, id) == CHOOSE r \in Visible(w) : r.id = id

\* ArchiveService.archive_files([path]): "ArchiveServiceError" when the file is
\* missing or the zip cannot be written, "OSError" when _archive_path cannot
\* create the period directory, else "ok"
ArchiveOutcomes(file) ==
  IF file \in disk THEN {"ok", "ArchiveServiceError", "OSError"} ELSE {"ArchiveServiceError"}

\* ArchiveService._archive_path: <base>/<period.label>/<slug(label)>-<timestamp>.zip;
\* ZipFile(path, "w") replaces a file already at the path
Archived(outcome, label, call) ==
  IF outcome = "ok"
    THEN {a \in archives : ~(a.label = label /\ a.ts = clock)}
           \cup {[label |-> label, ts |-> clock, by |-> call]}
    ELSE archives

\* which exceptions of the archive step the caller's except clause catches
ArchiveCaught(op, outcome) ==
  IF op = "csv" THEN outcome = "ArchiveServiceError" ELSE TRUE

AfterGenerate_Swallowed(ok) == "persist"

\* except CSVGenerationError / PDFGenerationError: the operation is aborted
AfterGenerate(ok) == IF ok THEN "persist" ELSE "raise"

AfterSend_Swallowed(ok) == "continue"

\* an exception of _send leaves the operation
AfterSend(ok) == IF ok THEN "continue" ELSE "raise"

\* ---- EmailService.send_csv_to_manager
CSV_Begin(w) ==
  /\ mw[w].pc = "idle"
  /\ mcalls < MaxSends
  /\ mcalls' = mcalls + 1
  /\ mw' = [mw EXCEPT ![w] = [Idle EXCEPT !.pc = "generate", !.op = "csv", !.call = mcalls + 1]]
  /\ mpre' = [mpre EXCEPT ![w] = reports]
  /\ UNCHANGED <<reports, mtx, disk, archives, mailed, clock, dataVars, payVars, genVars, apiVars>>

\* csv_path = self._csv.generate_csv_for_team(...)
CSV_Generate(w, ok) ==
  /\ mw[w].pc = "generate" /\ mw[w].op = "csv"
  /\ disk' = IF ok THEN disk \cup {mw[w].call} ELSE disk
  /\ LET rec == [mw[w] EXCEPT !.gen = IF ok THEN "ok" ELSE "failed",
                              !.file = IF ok THEN mw[w].call ELSE 0] IN
     IF AfterGenerate(ok) = "raise"
       THEN EndCall(w, rec, "csv_generation_failed", TRUE, mtx[w])
       ELSE /\ mw' = [mw EXCEPT ![w] = [rec EXCEPT !.pc = "persist"]]
            /\ UNCHANGED <<reports, mtx>>
  /\ UNCHANGED <<archives, mailed, clock, mcalls, mpre, dataVars, payVars, genVars, apiVars>>

\* update_or_create: SELECT ... FOR UPDATE of the rows of the key
CSV_UpsertGet(w) ==
  /\ mw[w].pc = "persist" /\ mw[w].op = "csv"
  /\ LET matches == {r \in Visible(w) : r.type = "MANAGER_CSV"} IN
     /\ \A r \in matches : ~LockedByOther(w, r.id)
     /\ IF matches = {}
          THEN /\ mw' = [mw EXCEPT ![w].pc = "create"]
               /\ UNCHANGED <<reports, mtx>>
          ELSE IF Cardinality(matches) = 1
            THEN LET row == [(CHOOSE r \in matches : TRUE) EXCEPT !.file = mw[w].file] IN
                 /\ mtx' = [mtx EXCEPT ![w] = Written(w, row)]
                 /\ mw' = [mw EXCEPT ![w].pc = "send", ![w].rep = row]
                 /\ UNCHANGED reports
            ELSE EndCall(w, mw[w], "MultipleObjectsReturned", TRUE, mtx[w])
  /\ UNCHANGED <<disk, archives, mailed, clock, mcalls, mpre, dataVars, payVars, genVars, apiVars>>

\* update_or_create: no row of the key was found, INSERT one; on an
\* IntegrityError the row of the key is fetched again and updated
CSV_UpsertCreate(w) ==
  /\ mw[w].pc = "create" /\ mw[w].op = "csv"
  /\ ~InsertWaits(w, "MANAGER_CSV")
  /\ LET matches == {r \in Visible(w) : r.type = "MANAGER_CSV"}
         fresh == [id |-> mw[w].call, type |-> "MANAGER_CSV", file |-> mw[w].file,
                   sent_at |-> 0, archived_at |-> 0] IN
     IF ~InsertConflicts(w, "MANAGER_CSV")
       THEN /\ mtx' = [mtx EXCEPT ![w] = Written(w, fresh)]
            /\ mw' = [mw EXCEPT ![w].pc = "send", ![w].rep = fresh]
            /\ UNCHANGED reports
       ELSE IF Cardinality(matches) = 1 /\ \A r \in matches : ~LockedByOther(w, r.id)
         THEN LET row == [(CHOOSE r \in matches : TRUE) EXCEPT !.file = mw[w].file] IN
              /\ mtx' = [mtx EXCEPT ![w] = Written(w, row)]
              /\ mw' = [mw EXCEPT ![w].pc = "send", ![w].rep = row]
              /\ UNCHANGED reports
         ELSE EndCall(w, mw[w], "MultipleObjectsReturned", TRUE, mtx[w])
  /\ UNCHANGED <<disk, archives, mailed, clock, mcalls, mpre, dataVars, payVars, genVars, apiVars>>

\* result = self._send(...); any exception becomes an EmailServiceError
CSV_Send(w, ok) ==
  /\ mw[w].pc = "send" /\ mw[w].op = "csv"
  /\ mailed' = IF ok THEN mailed \cup {mw[w].call} ELSE mailed
  /\ LET rec == [mw[w] EXCEPT !.send = IF ok THEN "sent" ELSE "failed"] IN
     IF AfterSend(ok) = "raise"
       THEN EndCall(w, rec, "sending_failed", TRUE, mtx[w])
       ELSE /\ mw' = [mw EXCEPT ![w] = [rec EXCEPT !.pc = "mark_sent"]]
            /\ UNCHANGED <<reports, mtx>>
  /\ UNCHANGED <<disk, archives, clock, mcalls, mpre, dataVars, payVars, genVars, apiVars>>

\* report.mark_sent()
CSV_MarkSent(w) ==
  /\ mw[w].pc = "mark_sent" /\ mw[w].op = "csv"
  /\ ~LockedByOther(w, mw[w].rep.id)
  /\ mtx' = [mtx EXCEPT ![w] = Written(w, mark_sent(Current(w, mw[w].rep.id), clock))]
  /\ mw' = [mw EXCEPT ![w].pc = "archive"]
  /\ UNCHANGED <<reports, disk, archives, mailed, clock, mcalls, mpre, dataVars, payVars, genVars, apiVars>>

\* self._archive.archive_files([csv_path], ...); except ArchiveServiceError: log
CSV_Archive(w, outcome) ==
  /\ mw[w].pc = "archive" /\ mw[w].op = "csv"
  /\ outcome \in ArchiveOutcomes(mw[w].file)
  /\ archives' = Archived(outcome, "csv", mw[w].call)
  /\ LET rec == [mw[w] EXCEPT !.arch = outcome] IN
     IF outcome = "ok" \/ ArchiveCaught("csv", outcome)
       THEN /\ mw' = [mw EXCEPT ![w] = [rec EXCEPT !.pc = "mark_archived"]]
            /\ UNCHANGED <<reports, mtx>>
       ELSE EndCall(w, rec, outcome, TRUE, mtx[w])
  /\ UNCHANGED <<disk, mailed, clock, mcalls, mpre, dataVars, payVars, genVars, apiVars>>

\* report.mark_archived(); return result
CSV_MarkArchived(w) ==
  /\ mw[w].pc = "mark_archived" /\ mw[w].op = "csv"
  /\ ~LockedByOther(w, mw[w].rep.id)
  /\ EndCall(w, mw[w], "ok", FALSE,
             Written(w, mark_archived(Current(w, mw[w].rep.id), clock)))
  /\ UNCHANGED <<disk, archives, mailed, clock, mcalls, mpre, dataVars, payVars, genVars, apiVars>>

\* ---- EmailService.send_payslip_for_manager
EmailMissing_UnlessToEmail(has_email, to_email) == ~has_email /\ ~to_email

\* "if not employee or not employee.email": to_email is not looked at
EmailMissing(has_email, to_email) == ~has_email

\* report is the GeneratedReport object the caller loaded (or None), user the
\* employee given instead of it (or None), has_email whether the employee's
\* email is non-empty, to_email whether another recipient address is given.
PDF_Begin(w, report, user, has_email, to_email) ==
  /\ mw[w].pc = "idle"
  /\ mcalls < MaxSends
  /\ mcalls' = mcalls + 1
  /\ mpre' = [mpre EXCEPT ![w] = reports]
  /\ LET rec == [Idle EXCEPT !.op = "pdf", !.call = mcalls + 1, !.rep = report,
                             !.user = user, !.has_email = has_email, !.to_email = to_email] IN
     IF report # NoReport /\ report.type # "USER_PDF"
       THEN EndCall(w, rec, "report_must_be_user_pdf", TRUE, mtx[w])
     ELSE IF report = NoReport /\ ~user
       THEN EndCall(w, rec, "provide_report_or_user", TRUE, mtx[w])
     ELSE IF EmailMissing(has_email, to_email)
       THEN EndCall(w, rec, "employee_email_missing", TRUE, mtx[w])
     ELSE /\ mw' = [mw EXCEPT ![w] = [rec EXCEPT !.pc = "generate"]]
          /\ UNCHANGED <<reports, mtx>>
  /\ UNCHANGED <<disk, archives, mailed, clock, dataVars, payVars, genVars, apiVars>>

ReusesFile_IfSet(report) == report # NoReport /\ report.file # 0

\* "if report is not None and getattr(report, 'file', None)" and candidate.exists()
ReusesFile(report) == report # NoReport /\ report.file # 0 /\ report.file \in disk

\* the report's file is reused when it is on disk, else a PDF is generated
PDF_Generate(w, ok) ==
  /\ mw[w].pc = "generate" /\ mw[w].op = "pdf"
  /\ LET report == mw[w].rep IN
     IF ReusesFile(report)
       THEN /\ ok
            /\ mw' = [mw EXCEPT ![w].pc = "send", ![w].file = report.file]
            /\ UNCHANGED <<reports, mtx, disk>>
       ELSE /\ disk' = IF ok THEN disk \cup {mw[w].call} ELSE disk
            /\ LET rec == [mw[w] EXCEPT !.gen = IF ok THEN "ok" ELSE "failed",
                                        !.file = IF ok THEN mw[w].call ELSE 0] IN
               IF AfterGenerate(ok) = "raise"
                 THEN EndCall(w, rec, "PDFGenerationError", TRUE, mtx[w])
                 ELSE /\ mw' = [mw EXCEPT ![w] =
                           [rec EXCEPT !.pc = IF report # NoReport THEN "save_file" ELSE "send"]]
                      /\ UNCHANGED <<reports, mtx>>
  /\ UNCHANGED <<archives, mailed, clock, mcalls, mpre, dataVars, payVars, genVars, apiVars>>

\* report.file.name = str(rel); report.save(update_fields=["file"])
PDF_SaveFile(w) ==
  /\ mw[w].pc = "save_file" /\ mw[w].op = "pdf"
  /\ ~LockedByOther(w, mw[w].rep.id)
  /\ mtx' = [mtx EXCEPT ![w] =
        Written(w, [Current(w, mw[w].rep.id) EXCEPT !.file = mw[w].file])]
  /\ mw' = [mw EXCEPT ![w].pc = "send"]
  /\ UNCHANGED <<reports, disk, archives, mailed, clock, mcalls, mpre, dataVars, payVars, genVars, apiVars>>

\* self._send(...): an exception of the transport propagates as it is
PDF_Send(w, ok) ==
  /\ mw[w].pc = "send" /\ mw[w].op = "pdf"
  /\ mailed' = IF ok THEN mailed \cup {mw[w].call} ELSE mailed
  /\ LET rec == [mw[w] EXCEPT !.send = IF ok THEN "sent" ELSE "failed"] IN
     IF AfterSend(ok) = "raise"
       THEN EndCall(w, rec, "send_exception", TRUE, mtx[w])
       ELSE /\ mw' = [mw EXCEPT ![w] = [rec EXCEPT !.pc = "archive"]]
            /\ UNCHANGED <<reports, mtx>>
  /\ UNCHANGED <<disk, archives, clock, mcalls, mpre, dataVars, payVars, genVars, apiVars>>

\* self._archive.archive_files([pdf_path], ...); except Exception: log
PDF_Archive(w, outcome) ==
  /\ mw[w].pc = "archive" /\ mw[w].op = "pdf"
  /\ outcome \in ArchiveOutcomes(mw[w].file)
  /\ archives' = Archived(outcome, "pdf", mw[w].call)
  /\ LET rec == [mw[w] EXCEPT !.arch = outcome] IN
     IF outcome = "ok" \/ ArchiveCaught("pdf", outcome)
       THEN /\ mw' = [mw EXCEPT ![w] = [rec EXCEPT !.pc = "mark_sent"]]
            /\ UNCHANGED <<reports, mtx>>
       ELSE EndCall(w, rec, outcome, TRUE, mtx[w])
  /\ UNCHANGED <<disk, mailed, clock, mcalls, mpre, dataVars, payVars, genVars, apiVars>>

\* if report is not None: report.mark_sent()
PDF_MarkSent(w) ==
  /\ mw[w].pc = "mark_sent" /\ mw[w].op = "pdf"
  /\ IF mw[w].rep = NoReport
       THEN UNCHANGED mtx
       ELSE /\ ~LockedByOther(w, mw[w].rep.id)
            /\ mtx' = [mtx EXCEPT ![w] =
                  Written(w, mark_sent(Current(w, mw[w].rep.id), clock))]
  /\ mw' = [mw EXCEPT ![w].pc = "mark_archived"]
  /\ UNCHANGED <<reports, disk, archives, mailed, clock, mcalls, mpre, dataVars, payVars, genVars, apiVars>>

\* if report is not None: report.mark_archived(); return recipient
PDF_MarkArchived(w) ==
  /\ mw[w].pc = "mark_archived" /\ mw[w].op = "pdf"
  /\ IF mw[w].rep = NoReport
       THEN EndCall(w, mw[w], "ok", FALSE, mtx[w])
       ELSE /\ ~LockedByOther(w, mw[w].rep.id)
            /\ EndCall(w, mw[w], "ok", FALSE,
                       Written(w, mark_archived(Current(w, mw[w].rep.id), clock)))
  /\ UNCHANGED <<disk, archives, mailed, clock, mcalls, mpre, dataVars, payVars, genVars, apiVars>>

\* the caller has the outcome; the worker serves the next request
M_Return(w) ==
  /\ mw[w].pc = "done"
  /\ mw' = [mw EXCEPT ![w] = Idle]
  /\ mpre' = [mpre EXCEPT ![w] = {}]
  /\ UNCHANGED <<reports, mtx, disk, archives, mailed, clock, mcalls, dataVars, payVars, genVars, apiVars>>

\* CreatePdfForEmployees.post: a PDF is generated and the USER_PDF row of the
\* employee is created, or its file replaced, in a transaction of its own
CreatePdfReport ==
  /\ mcalls < MaxSends
  /\ LET matches == {r \in reports : r.type = "USER_PDF"}
         fresh == [id |-> mcalls + 1, type |-> "USER_PDF", file |-> mcalls + 1,
                   sent_at |-> 0, archived_at |-> 0]
         after == IF matches = {} THEN reports \cup {fresh}
                  ELSE {IF r \in matches THEN [r EXCEPT !.file = mcalls + 1] ELSE r : r \in reports} IN
     /\ Cardinality(matches) <= 1
     /\ \A r \in matches : \A w \in Workers : r.id \notin Ids(mtx[w])
     /\ \A w \in Workers : ~InsertWaits(w, "USER_PDF") \/ matches # {}
     /\ reports' = after
     /\ mw' = [x \in Workers |->
                IF mw[x].pc # "idle" THEN [mw[x] EXCEPT !.interf = TRUE] ELSE mw[x]]
  /\ mcalls' = mcalls + 1
  /\ disk' = disk \cup {mcalls + 1}
  /\ UNCHANGED <<mtx, archives, mailed, clock, mpre, dataVars, payVars, genVars, apiVars>>

\* the timestamps recorded so far
Stamps ==
  {r.sent_at : r \in reports} \cup {r.archived_at : r \in reports}
    \cup UNION {{r.sent_at : r \in mtx[w]} \cup {r.archived_at : r \in mtx[w]} : w \in Workers}
    \cup {a.ts : a \in archives}

\* time passes; only the order of the recorded timestamps is observable, so the
\* clock is advanced only past a value that has been recorded
Tick ==
  /\ clock < MaxClock
  /\ clock \in Stamps
  /\ clock' = clock + 1
  /\ UNCHANGED <<reports, mtx, disk, archives, mailed, mcalls, mw, mpre, dataVars, payVars, genVars, apiVars>>

\* the file of a USER_PDF report is removed from the media directory
\* (retention, operator); no code reads any other file after its call
RemoveFile(f) ==
  /\ f \in disk
  /\ \E r \in reports : r.type = "USER_PDF" /\ r.file = f
  /\ disk' = disk \ {f}
  /\ UNCHANGED <<reports, mtx, archives, mailed, clock, mcalls, mw, mpre, dataVars, payVars, genVars, apiVars>>

\* ------------------------------------------------------ PDFGenerator
NoFile == [kind |-> "none", user |-> 0, period |-> 0, ts |-> 0]
PdfIdle == [pc |-> "idle", user |-> 0, period |-> 0, temp |-> NoFile, final |-> NoFile,
            result |-> "none", cause |-> "none"]

\* _generate_filename: [temp_]payslip_<user>_<year>_<month>_<timestamp>.pdf
generate_filename(u, p, temp, now) ==
  [kind |-> IF temp THEN "temp" ELSE "final", user |-> u, period |-> p, ts |-> now]

\* qpdf ends with exit status 0, with another status, or cannot be started
ProtectOutcomes == {"ok", "CalledProcessError", "FileNotFoundError"}

\* generate_pdf's handlers: "except PDFGenerationError: raise" comes first, only
\* the "except Exception" clause after it unlinks the temporary and final files
HandlerCleansUp(exc) == exc # "PDFGenerationError"

RaisePdfError(exc, cause) ==
  /\ gp' = [gp EXCEPT !.pc = "done", !.result = "PDFGenerationError", !.cause = cause]
  /\ pfiles' = IF HandlerCleansUp(exc) THEN pfiles \ {gp.temp, gp.final} ELSE pfiles

GenPdf_Begin(u, p) ==
  /\ gp.pc = "idle"
  /\ pcalls < MaxPdfCalls
  /\ pcalls' = pcalls + 1
  /\ gp' = [PdfIdle EXCEPT !.pc = "calculate", !.user = u, !.period = p]
  /\ UNCHANGED <<pfiles, pclock, gc, dataVars, payVars, mailVars, apiVars>>

\* calculator.calculate raises when the user has no Compensation; otherwise the
\* two file names are made
GenPdf_Calculate ==
  /\ gp.pc = "calculate"
  /\ IF compensation[gp.user] = 0
       THEN gp' = [gp EXCEPT !.pc = "done", !.result = "PDFGenerationError",
                             !.cause = "calculate"]
       ELSE gp' = [gp EXCEPT !.pc = "render",
                             !.temp = generate_filename(gp.user, gp.period, TRUE, pclock),
                             !.final = generate_filename(gp.user, gp.period, FALSE, pclock)]
  /\ UNCHANGED <<pfiles, pclock, pcalls, gc, dataVars, payVars, mailVars, apiVars>>

\* _create_pdf_content: the canvas is written to the temporary path by c.save();
\* an exception while drawing is wrapped in PDFGenerationError before any write
GenPdf_Render(ok) ==
  /\ gp.pc = "render"
  /\ IF ok
       THEN /\ pfiles' = pfiles \cup {gp.temp}
            /\ gp' = [gp EXCEPT !.pc = "protect"]
       ELSE RaisePdfError("PDFGenerationError", "render")
  /\ UNCHANGED <<pclock, pcalls, gc, dataVars, payVars, mailVars, apiVars>>

\* _protect_pdf_with_password: both failures of qpdf become PDFGenerationError
GenPdf_Protect(outcome) ==
  /\ gp.pc = "protect"
  /\ IF outcome = "ok"
       THEN /\ pfiles' = pfiles \cup {gp.final}
            /\ gp' = [gp EXCEPT !.pc = "unlink"]
       ELSE RaisePdfError("PDFGenerationError", outcome)
  /\ UNCHANGED <<pclock, pcalls, gc, dataVars, payVars, mailVars, apiVars>>

\* temp_filepath.unlink(); return final_filepath
GenPdf_Unlink ==
  /\ gp.pc = "unlink"
  /\ pfiles' = pfiles \ {gp.temp}
  /\ gp' = [gp EXCEPT !.pc = "done", !.result = "ok"]
  /\ UNCHANGED <<pclock, pcalls, gc, dataVars, payVars, mailVars, apiVars>>

GenPdf_Return ==
  /\ gp.pc = "done"
  /\ gp' = PdfIdle
  /\ UNCHANGED <<pfiles, pclock, pcalls, gc, dataVars, payVars, mailVars, apiVars>>

\* the wall clock reaches the next second
PdfTick ==
  /\ pclock < MaxClock
  /\ pclock' = pclock + 1
  /\ UNCHANGED <<gp, pfiles, pcalls, gc, dataVars, payVars, mailVars, apiVars>>

\* ------------------------------------------------------ CSVGenerator
Staff == 1..MaxEmployees
CsvIdle == [pc |-> "idle", is_manager |-> FALSE, employees |-> <<>>, paid |-> {},
            write_ok |-> FALSE, status |-> "none", message |-> "none", rows |-> <<>>]

\* the employee lists a call can be given: the manager's reports, each once
EmployeeLists ==
  {e \in UNION {[1..n -> Staff] : n \in 0..MaxEmployees} :
     \A i, j \in DOMAIN e : i # j => e[i] # e[j]}

\* the 'Working Days' value of the row _prepare_user_data builds
working_days(b) == b.business_days - b.unpaid_days

prepare_user_data_Never_Fails(e, paid) == TRUE

\* _prepare_user_data: calculate raises for an employee without Compensation,
\* which is wrapped in CSVGenerationError
prepare_user_data(e, paid) == e \in paid

\* the loop of generate_csv: a row per employee whose data could be prepared,
\* the others are skipped
RECURSIVE CollectRows(_, _)
CollectRows(employees, paid) ==
  IF employees = <<>> THEN <<>>
  ELSE (IF prepare_user_data(Head(employees), paid) THEN <<Head(employees)>> ELSE <<>>)
         \o CollectRows(Tail(employees), paid)

CsvError(message) == [status |-> "CSVGenerationError", message |-> message, rows |-> <<>>]

generate_csv(is_manager, employees, paid, write_ok) ==
  IF ~is_manager THEN CsvError("not_a_manager")
  ELSE IF employees = <<>> THEN CsvError("no_employees")
  ELSE LET rows == CollectRows(employees, paid) IN
         IF rows = <<>> THEN CsvError("no_valid_employee_data")
         ELSE IF ~write_ok THEN CsvError("write_failed")
         ELSE [status |-> "ok", message |-> "none", rows |-> rows]

\* a call: the arguments, the employees that have a Compensation row, and
\* whether the report file can be written
GenCsv_Call(is_manager, employees, paid, write_ok) ==
  /\ gc.pc = "idle"
  /\ gc' = [CsvIdle EXCEPT !.pc = "running", !.is_manager = is_manager,
                           !.employees = employees, !.paid = paid, !.write_ok = write_ok]
  /\ UNCHANGED <<gp, pfiles, pclock, pcalls, dataVars, payVars, mailVars, apiVars>>

GenCsv_Run ==
  /\ gc.pc = "running"
  /\ LET r == generate_csv(gc.is_manager, gc.employees, gc.paid, gc.write_ok) IN
       gc' = [gc EXCEPT !.pc = "done", !.status = r.status, !.message = r.message,
                        !.rows = r.rows]
  /\ UNCHANGED <<gp, pfiles, pclock, pcalls, dataVars, payVars, mailVars, apiVars>>

GenCsv_Return ==
  /\ gc.pc = "done"
  /\ gc' = CsvIdle
  /\ UNCHANGED <<gp, pfiles, pclock, pcalls, dataVars, payVars, mailVars, apiVars>>

\* ------------------------------------------------- BonusViewSet (REST)
NotSupplied == 0
NoRequest == [op |-> "none", status |-> 0]
BonusRequestAmounts == BonusAmounts \cup {0, 15000}
BonusRequestDescriptions == Descriptions \cup {"prime"}

\* BonusSerializer.validate: attrs.get('period') or the instance's period
ValidatedPeriod(instance_period, attrs_period) ==
  IF attrs_period # NotSupplied THEN attrs_period ELSE instance_period

RejectsLocked(instance_period, attrs_period) ==
  LET period == ValidatedPeriod(instance_period, attrs_period)
  IN period # NotSupplied /\ is_locked[period]

\* validate_amount runs only for a supplied amount
RejectsAmount(a) == a # NotSupplied /\ a <= 0

\* unique_together (user, period, description), the row itself excluded
RejectsDuplicate(u, p, d, self) ==
  \E b \in bonuses \ self : b.user = u /\ b.period = p /\ b.description = d

Respond(op, status) ==
  /\ breq' = [op |-> op, status |-> status]
  /\ breqs' = breqs + 1

\* POST /bonuses/
Bonus_Create(u, p, d, a) ==
  /\ breqs < MaxBonusRequests
  /\ IF RejectsAmount(a) \/ a = NotSupplied \/ RejectsLocked(NotSupplied, p)
        \/ RejectsDuplicate(u, p, d, {})
       THEN /\ Respond("create", 400)
            /\ UNCHANGED bonuses
       ELSE /\ Respond("create", 201)
            /\ bonuses' = bonuses \cup {[user |-> u, period |-> p, description |-> d, amount |-> a]}
  /\ UNCHANGED <<compensation, unpaidLeave, is_locked, edits, payVars, mailVars, genVars, cc, team, batch, qc, az, pp>>

\* PUT / PATCH /bonuses/<id>/ with a period and an amount, each optional
Bonus_Update(b, p, a) ==
  /\ breqs < MaxBonusRequests
  /\ b \in bonuses
  /\ LET period == ValidatedPeriod(b.period, p)
         amount == IF a # NotSupplied THEN a ELSE b.amount
     IN IF RejectsAmount(a) \/ RejectsLocked(b.period, p)
           \/ RejectsDuplicate(b.user, period, b.description, {b})
          THEN /\ Respond("update", 400)
               /\ UNCHANGED bonuses
          ELSE /\ Respond("update", 200)
               /\ bonuses' = (bonuses \ {b}) \cup {[b EXCEPT !.period = period, !.amount = amount]}
  /\ UNCHANGED <<compensation, unpaidLeave, is_locked, edits, payVars, mailVars, genVars, cc, team, batch, qc, az, pp>>

\* DELETE /bonuses/<id>/: ModelViewSet.destroy, the serializer is not involved
Bonus_Delete(b) ==
  /\ breqs < MaxBonusRequests
  /\ b \in bonuses
  /\ Respond("delete", 204)
  /\ bonuses' = bonuses \ {b}
  /\ UNCHANGED <<compensation, unpaidLeave, is_locked, edits, payVars, mailVars, genVars, cc, team, batch, qc, az, pp>>

\* --------------------------------------- SalaryCalculator as functions
CalcIdle == [pc |-> "idle", fn |-> "none", amount |-> 0, start |-> 0, end |-> 0,
             leave |-> {}, bonus |-> {}, x |-> 0, days |-> 0, out |-> NoBreakdown, q |-> 0]

\* the arguments the functions are applied to
CalcAmounts == CompAmounts \cup {1}
CalcStarts == {0, 5, 7}
CalcEnds == {4, 6, MaxDay}
CalcLeaveDates == {1, 5, 8, MaxDay + 2}
CalcBonuses == {[description |-> "bonus", amount |-> 20000],
                [description |-> "prime", amount |-> 12345]}
\* small salaries (in cents) and the periods [0, end] of at most a week, with
\* any UNPAID_LEAVE dates of that week (one record per date)
SmallAmounts == 1..MaxCents
ShortEnds == 0..MaxShortEnd
QuantizeInputs == (-MaxThousandths..MaxThousandths) \cup {10005, 10004, 10010, -10005}

\* calculate on a user with Compensation amount, the period [start, end], the
\* user's UNPAID_LEAVE dates and the user's Bonus rows of the period
Calc_Calculate(amount, start, end, leave, bonus) ==
  /\ cc.pc = "idle"
  /\ cc' = [CalcIdle EXCEPT !.pc = "done", !.fn = "calculate", !.amount = amount,
              !.start = start, !.end = end, !.leave = leave, !.bonus = bonus,
              !.out = calculate_breakdown(amount, count_business_days(start, end),
                                          unpaid_days_in(leave, start, end),
                                          quantize_money(10 * SumAmounts(bonus)))]
  /\ UNCHANGED <<dataVars, payVars, mailVars, genVars, bonusApiVars, team, batch, qc, az, pp>>

Calc_CountBusinessDays(start, end) ==
  /\ cc.pc = "idle"
  /\ cc' = [CalcIdle EXCEPT !.pc = "done", !.fn = "count_business_days",
              !.start = start, !.end = end, !.days = count_business_days(start, end)]
  /\ UNCHANGED <<dataVars, payVars, mailVars, genVars, bonusApiVars, team, batch, qc, az, pp>>

\* _quantize_money of x thousandths
Calc_Quantize(x) ==
  /\ cc.pc = "idle"
  /\ cc' = [CalcIdle EXCEPT !.pc = "done", !.fn = "quantize_money", !.x = x,
              !.q = quantize_money(x)]
  /\ UNCHANGED <<dataVars, payVars, mailVars, genVars, bonusApiVars, team, batch, qc, az, pp>>

Calc_Return ==
  /\ cc.pc = "done"
  /\ cc' = CalcIdle
  /\ UNCHANGED <<dataVars, payVars, mailVars, genVars, bonusApiVars, team, batch, qc, az, pp>>

\* -------------------------------- SalaryCalculator.calculate_for_team
\* The organisation: user 0 is the manager the call is made for, the others
\* are employees; manager[e] is User.manager (NoManager for null).
Boss == 0
NoManager == -1
Org == 0..MaxTeam
Hierarchies ==
  {m \in [Org -> Org \cup {NoManager}] : \A e \in Org : m[e] # e}

TeamIdle == [pc |-> "idle", is_manager |-> FALSE, manager |-> [e \in Org |-> NoManager],
             active |-> {}, paid |-> {}, include_indirect |-> FALSE,
             raised |-> "none", results |-> <<>>,
             to_process |-> <<>>, subordinates |-> {}, expanded |-> [e \in Org |-> 0],
             returned |-> {}]

\* a set of user ids as the list a queryset yields (the order is not relied on)
RECURSIVE AsList(_)
AsList(S) ==
  IF S = {} THEN <<>>
  ELSE LET least == CHOOSE x \in S : \A y \in S : x <= y
       IN <<least>> \o AsList(S \ {least})

direct_reports_AnyStatus(manager, active, u) == {e \in Org : manager[e] = u}

\* user.direct_reports.filter(is_active=True)
direct_reports(manager, active, u) == {e \in Org : manager[e] = u /\ e \in active}

\* the while loop of User.get_all_subordinates(include_indirect=True)
RECURSIVE Subordinates(_, _, _, _)
Subordinates(manager, active, to_process, subordinates) ==
  IF to_process = <<>> THEN subordinates
  ELSE LET employee == Head(to_process) IN
       IF employee \notin subordinates
         THEN Subordinates(manager, active,
                           Tail(to_process) \o AsList(direct_reports(manager, active, employee)),
                           subordinates \cup {employee})
         ELSE Subordinates(manager, active, Tail(to_process), subordinates)

get_all_subordinates(manager, active, u, include_indirect) ==
  IF ~include_indirect THEN direct_reports(manager, active, u)
  ELSE Subordinates(manager, active, AsList(direct_reports(manager, active, u)), {})

TeamCatches_Nothing(exc) == FALSE

\* "except Exception" around calculate in the loop of calculate_for_team
TeamCatches(exc) == TRUE

TeamEntry(e, paid) ==
  IF e \in paid THEN [user |-> e, breakdown |-> "breakdown", error |-> "None"]
  ELSE [user |-> e, breakdown |-> "None", error |-> "ValueError"]

\* the loop: an entry per employee, or the first exception that is not caught
RECURSIVE TeamLoop(_, _, _)
TeamLoop(employees, paid, results) ==
  IF employees = <<>> THEN [raised |-> "none", results |-> results]
  ELSE LET e == Head(employees) IN
       IF e \notin paid /\ ~TeamCatches("ValueError")
         THEN [raised |-> "ValueError", results |-> <<>>]
         ELSE TeamLoop(Tail(employees), paid, Append(results, TeamEntry(e, paid)))

calculate_for_team(is_manager, manager, active, paid, include_indirect) ==
  IF ~is_manager THEN [raised |-> "ValueError", results |-> <<>>]
  ELSE TeamLoop(AsList(get_all_subordinates(manager, active, Boss, include_indirect)),
                paid, <<>>)

Team_Call(is_manager, manager, active, paid, include_indirect) ==
  /\ team.pc = "idle"
  /\ LET r == calculate_for_team(is_manager, manager, active, paid, include_indirect) IN
       team' = [TeamIdle EXCEPT !.pc = "done", !.is_manager = is_manager,
                                !.manager = manager, !.active = active, !.paid = paid,
                                !.include_indirect = include_indirect,
                                !.raised = r.raised, !.results = r.results]
  /\ UNCHANGED <<dataVars, payVars, mailVars, genVars, bonusApiVars, cc, batch, qc, az, pp>>

Team_Return ==
  /\ team.pc = "done"
  /\ team' = TeamIdle
  /\ UNCHANGED <<dataVars, payVars, mailVars, genVars, bonusApiVars, cc, batch, qc, az, pp>>

\* ------------------------------- User.get_all_subordinates, statement by statement
Visited_Never(id, subordinates) == FALSE

\* "if employee.id not in subordinates" (negated)
Visited(id, subordinates) == id \in subordinates

\* the call on the user Boss up to the first evaluation of the while condition
Subs_Call(is_manager, manager, active, include_indirect) ==
  /\ team.pc = "idle"
  /\ team' = IF ~is_manager
               THEN [TeamIdle EXCEPT !.pc = "returned", !.manager = manager,
                                     !.active = active,
                                     !.include_indirect = include_indirect]
             ELSE IF ~include_indirect
               THEN [TeamIdle EXCEPT !.pc = "returned", !.is_manager = TRUE,
                                     !.manager = manager, !.active = active,
                                     !.returned = direct_reports(manager, active, Boss)]
             ELSE [TeamIdle EXCEPT !.pc = "loop", !.is_manager = TRUE,
                                   !.manager = manager, !.active = active,
                                   !.include_indirect = TRUE,
                                   !.to_process =
                                      AsList(direct_reports(manager, active, Boss))]
  /\ UNCHANGED <<dataVars, payVars, mailVars, genVars, bonusApiVars, cc, batch, qc, az, pp>>

\* one iteration of "while to_process"
Subs_Step ==
  /\ team.pc = "loop"
  /\ team.to_process # <<>>
  /\ LET employee == Head(team.to_process) IN
       team' = IF ~Visited(employee, team.subordinates)
                 THEN [team EXCEPT
                         !.to_process = Tail(team.to_process) \o
                            AsList(direct_reports(team.manager, team.active, employee)),
                         !.subordinates = team.subordinates \cup {employee},
                         !.expanded[employee] = team.expanded[employee] + 1]
                 ELSE [team EXCEPT !.to_process = Tail(team.to_process)]
  /\ UNCHANGED <<dataVars, payVars, mailVars, genVars, bonusApiVars, cc, batch, qc, az, pp>>

\* the loop ends: User.objects.filter(id__in=subordinates)
Subs_Finish ==
  /\ team.pc = "loop"
  /\ team.to_process = <<>>
  /\ team' = [team EXCEPT !.pc = "returned", !.returned = team.subordinates]
  /\ UNCHANGED <<dataVars, payVars, mailVars, genVars, bonusApiVars, cc, batch, qc, az, pp>>

Subs_Return ==
  /\ team.pc = "returned"
  /\ team' = TeamIdle
  /\ UNCHANGED <<dataVars, payVars, mailVars, genVars, bonusApiVars, cc, batch, qc, az, pp>>

\* ------------------------------- PDFGenerator.generate_pdfs_for_team
BatchIdle == [pc |-> "idle", is_manager |-> FALSE, employees |-> <<>>, failing |-> {},
              raised |-> "none", results |-> <<>>]

\* generate_pdf for one employee of the batch: the path of the protected file,
\* or PDFGenerationError (every failure of generate_pdf ends as that error)
generate_pdf_outcome(e, failing) == IF e \in failing THEN "PDFGenerationError" ELSE "ok"

BatchCatches_Nothing(exc) == FALSE

\* "except PDFGenerationError" in the loop of generate_pdfs_for_team
BatchCatches(exc) == exc = "PDFGenerationError"

BatchEntry(e, outcome) ==
  IF outcome = "ok" THEN [user |-> e, filepath |-> "path", error |-> "None"]
  ELSE [user |-> e, filepath |-> "None", error |-> outcome]

RECURSIVE BatchLoop(_, _, _)
BatchLoop(employees, failing, results) ==
  IF employees = <<>> THEN [raised |-> "none", results |-> results]
  ELSE LET e == Head(employees)
           outcome == generate_pdf_outcome(e, failing)
       IN IF outcome # "ok" /\ ~BatchCatches(outcome)
            THEN [raised |-> outcome, results |-> <<>>]
            ELSE BatchLoop(Tail(employees), failing, Append(results, BatchEntry(e, outcome)))

generate_pdfs_for_team(is_manager, employees, failing) ==
  IF ~is_manager THEN [raised |-> "PDFGenerationError", results |-> <<>>]
  ELSE BatchLoop(employees, failing, <<>>)

Batch_Call(is_manager, employees, failing) ==
  /\ batch.pc = "idle"
  /\ LET r == generate_pdfs_for_team(is_manager, employees, failing) IN
       batch' = [pc |-> "done", is_manager |-> is_manager, employees |-> employees,
                 failing |-> failing, raised |-> r.raised, results |-> r.results]
  /\ UNCHANGED <<dataVars, payVars, mailVars, genVars, bonusApiVars, cc, team, qc, az, pp>>

Batch_Return ==
  /\ batch.pc = "done"
  /\ batch' = BatchIdle
  /\ UNCHANGED <<dataVars, payVars, mailVars, genVars, bonusApiVars, cc, team, qc, az, pp>>

\* ------------------------------------ EmailService.queue_csv_to_manager
NoResult == [kind |-> "none", value |-> "none", status |-> "none", attachments |-> 0]
QueueIdle == [pc |-> "idle", celery |-> FALSE, include_indirect |-> FALSE, call |-> 0,
              result |-> NoResult, tasks |-> {}, runs |-> {}, calls |-> 0]

\* how a run of send_csv_to_manager ends: its EmailResult, or the exception
SendCsvOutcomes == {"ok", "csv_generation_failed", "sending_failed", "OSError"}

UsesCelery_Never(enabled) == FALSE

\* if CELERY_ENABLED
UsesCelery(enabled) == enabled

\* the caller's view of a synchronous run
SyncResult(outcome) ==
  IF outcome = "ok"
    THEN [kind |-> "returned", value |-> "EmailResult", status |-> "sent", attachments |-> 1]
    ELSE [kind |-> "raised", value |-> outcome, status |-> "none", attachments |-> 0]

\* queue_csv_to_manager: task_send_csv_to_manager.delay(...) and an EmailResult
\* with status None, or the synchronous call
Queue_Call(enabled, include_indirect) ==
  /\ qc.pc = "idle"
  /\ qc.calls < MaxQueueCalls
  /\ LET id == qc.calls + 1 IN
       IF UsesCelery(enabled)
         THEN qc' = [qc EXCEPT !.pc = "done", !.celery = enabled, !.call = id, !.calls = id,
                       !.include_indirect = include_indirect,
                       !.tasks = @ \cup {[by |-> id, include_indirect |-> include_indirect]},
                       !.result = [kind |-> "returned", value |-> "EmailResult",
                                   status |-> "None", attachments |-> 0]]
         ELSE qc' = [qc EXCEPT !.pc = "sending", !.celery = enabled, !.call = id, !.calls = id,
                       !.include_indirect = include_indirect, !.result = NoResult]
  /\ UNCHANGED <<dataVars, payVars, mailVars, genVars, bonusApiVars, cc, team, batch, az, pp>>

\* return self.send_csv_to_manager(manager, period, include_indirect=...)
Queue_SendNow(outcome) ==
  /\ qc.pc = "sending"
  /\ qc' = [qc EXCEPT !.pc = "done", !.result = SyncResult(outcome),
              !.runs = @ \cup {[by |-> qc.call, mode |-> "sync", outcome |-> outcome,
                                include_indirect |-> qc.include_indirect]}]
  /\ UNCHANGED <<dataVars, payVars, mailVars, genVars, bonusApiVars, cc, team, batch, az, pp>>

\* task_send_csv_to_manager, run by a Celery worker at any later time
Queue_RunTask(t, outcome) ==
  /\ t \in qc.tasks
  /\ qc' = [qc EXCEPT !.tasks = @ \ {t},
              !.runs = @ \cup {[by |-> t.by, mode |-> "task", outcome |-> outcome,
                                include_indirect |-> t.include_indirect]}]
  /\ UNCHANGED <<dataVars, payVars, mailVars, genVars, bonusApiVars, cc, team, batch, az, pp>>

Queue_Return ==
  /\ qc.pc = "done"
  /\ qc' = [qc EXCEPT !.pc = "idle", !.result = NoResult]
  /\ UNCHANGED <<dataVars, payVars, mailVars, genVars, bonusApiVars, cc, team, batch, az, pp>>

\* ----------------------------------------- ArchiveService.archive_files
ArchPaths == 1..MaxFiles
NoArchive == [written |-> FALSE, entries |-> <<>>]
ArchIdle == [pc |-> "idle", files |-> <<>>, existing |-> {}, fs |-> "none",
             raised |-> "none", files_count |-> 0, archive |-> NoArchive]

\* the lists of paths a call is given
PathLists == UNION {[1..n -> ArchPaths] : n \in 0..MaxFiles}

\* what the file system does when the archive is made: the period directory
\* cannot be created, the zip file cannot be opened, a write into it fails
FsOutcomes == {"ok", "mkdir_fails", "zip_open_fails", "zip_write_fails"}

Exists_Always(p, existing) == TRUE

\* Path(p).exists()
Exists(p, existing) == p \in existing

\* [Path(p) for p in files if Path(p).exists()]
RECURSIVE ExistingFiles(_, _)
ExistingFiles(files, existing) ==
  IF files = <<>> THEN <<>>
  ELSE (IF Exists(Head(files), existing) THEN <<Head(files)>> ELSE <<>>)
         \o ExistingFiles(Tail(files), existing)

archive_files(files, existing, fs) ==
  LET file_list == ExistingFiles(files, existing) IN
  IF file_list = <<>>
    THEN [raised |-> "ArchiveServiceError", files_count |-> 0, archive |-> NoArchive]
  ELSE IF fs = "mkdir_fails"
    THEN [raised |-> "OSError", files_count |-> 0, archive |-> NoArchive]
  ELSE IF fs = "zip_open_fails"
    THEN [raised |-> "ArchiveServiceError", files_count |-> 0, archive |-> NoArchive]
  ELSE IF fs = "zip_write_fails"
    THEN [raised |-> "ArchiveServiceError", files_count |-> 0,
          archive |-> [written |-> TRUE, entries |-> <<>>]]
  ELSE [raised |-> "none", files_count |-> Len(file_list),
        archive |-> [written |-> TRUE, entries |-> file_list]]

Arch_Call(files, existing, fs) ==
  /\ az.pc = "idle"
  /\ LET r == archive_files(files, existing, fs) IN
       az' = [pc |-> "done", files |-> files, existing |-> existing, fs |-> fs,
              raised |-> r.raised, files_count |-> r.files_count, archive |-> r.archive]
  /\ UNCHANGED <<dataVars, payVars, mailVars, genVars, bonusApiVars, cc, team, batch, qc, pp>>

Arch_Return ==
  /\ az.pc = "done"
  /\ az' = ArchIdle
  /\ UNCHANGED <<dataVars, payVars, mailVars, genVars, bonusApiVars, cc, team, batch, qc, pp>>

\* --------------------------------------- PayrollPeriod.lock / unlock
\* locked_by is a user or NULL; locked_at is the time of the call that set it,
\* 0 for NULL.  calls counts the calls made on the object and op names the
\* last one; timezone.now() of the n-th call is n.
NoUser == -1
Lockers == Org \cup {NoUser}
NewPeriod == [is_locked |-> FALSE, locked_at |-> 0, locked_by |-> NoUser,
              calls |-> 0, op |-> "none"]

LockApplies_Always(locked) == TRUE

\* "if not self.is_locked"
LockApplies(locked) == ~locked

\* "if self.is_locked"
UnlockApplies(locked) == locked

\* period.lock(user)
Period_Lock(user) ==
  /\ pp.calls < MaxLockCalls
  /\ pp' = IF LockApplies(pp.is_locked)
             THEN [pp EXCEPT !.is_locked = TRUE, !.locked_at = pp.calls + 1,
                             !.locked_by = user, !.calls = pp.calls + 1, !.op = "lock"]
             ELSE [pp EXCEPT !.calls = pp.calls + 1, !.op = "lock"]
  /\ UNCHANGED <<dataVars, payVars, mailVars, genVars, bonusApiVars, cc, team, batch, qc, az>>

\* period.unlock()
Period_Unlock ==
  /\ pp.calls < MaxLockCalls
  /\ pp' = IF UnlockApplies(pp.is_locked)
             THEN [pp EXCEPT !.is_locked = FALSE, !.locked_at = 0,
                             !.locked_by = NoUser, !.calls = pp.calls + 1, !.op = "unlock"]
             ELSE [pp EXCEPT !.calls = pp.calls + 1, !.op = "unlock"]
  /\ UNCHANGED <<dataVars, payVars, mailVars, genVars, bonusApiVars, cc, team, batch, qc, az>>

\* everything but the payroll data: no request has been served yet
InitRest ==
  /\ is_locked = [p \in Periods |-> FALSE]
  /\ payslips = {}
  /\ edits = 0
  /\ calls = 0
  /\ pc = [w \in Workers |-> "idle"]
  /\ cid = [w \in Workers |-> 0]
  /\ cu = [w \in Workers |-> 0]
  /\ cp = [w \in Workers |-> 0]
  /\ argLocked = [w \in Workers |-> FALSE]
  /\ existedAtCall = [w \in Workers |-> FALSE]
  /\ breakdown = [w \in Workers |-> NoBreakdown]
  /\ pending = [w \in Workers |-> NoRow]
  /\ result = [w \in Workers |-> "none"]
  /\ reports = {}
  /\ mtx = [w \in Workers |-> {}]
  /\ disk = {}
  /\ archives = {}
  /\ mailed = {}
  /\ clock = 1
  /\ mcalls = 0
  /\ mw = [w \in Workers |-> Idle]
  /\ mpre = [w \in Workers |-> {}]
  /\ gp = PdfIdle
  /\ pfiles = {}
  /\ pclock = 1
  /\ pcalls = 0
  /\ gc = CsvIdle
  /\ breq = NoRequest
  /\ breqs = 0
  /\ cc = CalcIdle
  /\ team = TeamIdle
  /\ batch = BatchIdle
  /\ qc = QueueIdle
  /\ az = ArchIdle
  /\ pp = NewPeriod

Init ==
  /\ compensation = [u \in Users |-> 0]
  /\ bonuses = {}
  /\ unpaidLeave = {}
  /\ InitRest

\* payroll data entered before the first payslip is generated
SlipInit ==
  /\ compensation \in [Users -> CompAmounts]
  /\ bonuses \in SUBSET [user : Users, period : Periods, description : Descriptions,
                         amount : BonusAmounts]
  /\ unpaidLeave \in {S \in SUBSET (Users \X LeaveDates) : Cardinality(S) <= 1}
  /\ InitRest

Next ==
  \/ \E u \in Users, a \in CompAmounts : SetCompensation(u, a)
  \/ \E u \in Users, p \in Periods, d \in Descriptions, a \in BonusAmounts : CreateBonus(u, p, d, a)
  \/ \E u \in Users, d \in LeaveDates : RecordUnpaidLeave(u, d)
  \/ \E p \in Periods : lock(p)
  \/ \E p \in Periods : unlock(p)
  \/ \E w \in Workers, u \in Users, p \in Periods : GP_Begin(w, u, p)
  \/ \E w \in Workers : GP_CheckExists(w)
  \/ \E w \in Workers : GP_Calculate(w)
  \/ \E w \in Workers : GP_Save(w)
  \/ \E w \in Workers : GP_Commit(w)
  \/ \E w \in Workers : GP_Return(w)

Spec == Init /\ [][Next]_vars

\* generate_payslip calls one after another, with bonuses entered in between
SlipNext ==
  \/ \E u \in Users, p \in Periods, d \in Descriptions, a \in BonusAmounts : CreateBonus(u, p, d, a)
  \/ \E u \in Users, p \in Periods : GP_Begin("t1", u, p)
  \/ GP_CheckExists("t1")
  \/ GP_Calculate("t1")
  \/ GP_Save("t1")
  \/ GP_Commit("t1")
  \/ GP_Return("t1")

SlipSpec == SlipInit /\ [][SlipNext]_vars

MailNext ==
  \/ \E w \in Workers : CSV_Begin(w)
  \/ \E w \in Workers, ok \in BOOLEAN : CSV_Generate(w, ok)
  \/ \E w \in Workers : CSV_UpsertGet(w)
  \/ \E w \in Workers : CSV_UpsertCreate(w)
  \/ \E w \in Workers, ok \in BOOLEAN : CSV_Send(w, ok)
  \/ \E w \in Workers : CSV_MarkSent(w)
  \/ \E w \in Workers, o \in {"ok", "ArchiveServiceError", "OSError"} : CSV_Archive(w, o)
  \/ \E w \in Workers : CSV_MarkArchived(w)
  \/ \E w \in Workers, r \in reports \cup {NoReport}, u \in BOOLEAN, e \in BOOLEAN, t \in BOOLEAN :
        PDF_Begin(w, r, u, e, t)
  \/ \E w \in Workers, ok \in BOOLEAN : PDF_Generate(w, ok)
  \/ \E w \in Workers : PDF_SaveFile(w)
  \/ \E w \in Workers, ok \in BOOLEAN : PDF_Send(w, ok)
  \/ \E w \in Workers, o \in {"ok", "ArchiveServiceError", "OSError"} : PDF_Archive(w, o)
  \/ \E w \in Workers : PDF_MarkSent(w)
  \/ \E w \in Workers : PDF_MarkArchived(w)
  \/ \E w \in Workers : M_Return(w)
  \/ CreatePdfReport
  \/ Tick
  \/ \E f \in 1..MaxSends : RemoveFile(f)

MailSpec == Init /\ [][MailNext]_vars

PdfNext ==
  \/ \E u \in Users, a \in CompAmounts : SetCompensation(u, a)
  \/ \E u \in Users, p \in Periods, d \in Descriptions, a \in BonusAmounts : CreateBonus(u, p, d, a)
  \/ \E u \in Users, d \in LeaveDates : RecordUnpaidLeave(u, d)
  \/ \E u \in Users, p \in Periods : GenPdf_Begin(u, p)
  \/ GenPdf_Calculate
  \/ \E ok \in BOOLEAN : GenPdf_Render(ok)
  \/ \E o \in ProtectOutcomes : GenPdf_Protect(o)
  \/ GenPdf_Unlink
  \/ GenPdf_Return
  \/ PdfTick

PdfSpec == Init /\ [][PdfNext]_vars

CsvNext ==
  \/ \E m \in BOOLEAN, e \in EmployeeLists, paid \in SUBSET Staff, ok \in BOOLEAN :
        GenCsv_Call(m, e, paid, ok)
  \/ GenCsv_Run
  \/ GenCsv_Return

CsvSpec == Init /\ [][CsvNext]_vars

BonusNext ==
  \/ \E u \in Users, p \in Periods, d \in BonusRequestDescriptions, a \in BonusRequestAmounts :
        Bonus_Create(u, p, d, a)
  \/ \E b \in bonuses, p \in Periods \cup {NotSupplied}, a \in BonusRequestAmounts :
        Bonus_Update(b, p, a)
  \/ \E b \in bonuses : Bonus_Delete(b)
  \/ \E p \in Periods : lock(p)
  \/ \E p \in Periods : unlock(p)

BonusSpec == Init /\ [][BonusNext]_vars

CalcNext ==
  \/ \E a \in CalcAmounts, s \in CalcStarts, e \in CalcEnds,
        l \in SUBSET CalcLeaveDates, b \in SUBSET CalcBonuses : Calc_Calculate(a, s, e, l, b)
  \/ /\ cc.pc = "idle"
     /\ \E a \in SmallAmounts, e \in ShortEnds, l \in SUBSET ShortEnds :
           Calc_Calculate(a, 0, e, l, {})
  \/ \E s \in 0..MaxDay, e \in 0..MaxDay : Calc_CountBusinessDays(s, e)
  \/ \E x \in QuantizeInputs : Calc_Quantize(x)
  \/ Calc_Return

CalcSpec == Init /\ [][CalcNext]_vars

TeamNext ==
  \/ /\ team.pc = "idle"
     /\ \E m \in BOOLEAN, h \in Hierarchies, a \in SUBSET Org, p \in SUBSET Org, i \in BOOLEAN :
           Team_Call(m, h, a, p, i)
  \/ Team_Return

TeamSpec == Init /\ [][TeamNext]_vars

SubsNext ==
  \/ /\ team.pc = "idle"
     /\ \E m \in BOOLEAN, h \in Hierarchies, a \in SUBSET Org, i \in BOOLEAN :
           Subs_Call(m, h, a, i)
  \/ Subs_Step
  \/ Subs_Finish
  \/ Subs_Return

SubsSpec == Init /\ [][SubsNext]_vars

\* the interpreter keeps executing the loop of a call that has started
SubsFairSpec == SubsSpec /\ WF_vars(Subs_Step) /\ WF_vars(Subs_Finish)

LockNext ==
  \/ \E u \in Lockers : Period_Lock(u)
  \/ Period_Unlock

LockSpec == Init /\ [][LockNext]_vars

BatchNext ==
  \/ /\ batch.pc = "idle"
     /\ \E m \in BOOLEAN, e \in EmployeeLists, f \in SUBSET Staff : Batch_Call(m, e, f)
  \/ Batch_Return

BatchSpec == Init /\ [][BatchNext]_vars

QueueNext ==
  \/ \E c \in BOOLEAN, i \in BOOLEAN : Queue_Call(c, i)
  \/ \E o \in SendCsvOutcomes : Queue_SendNow(o)
  \/ \E t \in qc.tasks, o \in SendCsvOutcomes : Queue_RunTask(t, o)
  \/ Queue_Return

QueueSpec == Init /\ [][QueueNext]_vars

ArchNext ==
  \/ /\ az.pc = "idle"
     /\ \E f \in PathLists, e \in SUBSET ArchPaths, o \in FsOutcomes : Arch_Call(f, e, o)
  \/ Arch_Return

ArchSpec == Init /\ [][ArchNext]_vars

\* ------------------------------------------------ generate_payslip claims
RowsOfKey(u, p) == {r \in payslips : r.user = u /\ r.period = p}
RowsOfCall(w) == {r \in payslips : r.id = cid[w]}
CreatedNothing(w) == RowsOfCall(w) = {} /\ pending[w] = NoRow

\* C1 as stated: at most one Payslip row per (user, period) in every state, and a
\* call made when a Payslip of its (user, period) exists ends with the 'already
\* exists' error and creates no row.
C1_Original ==
  /\ \A u \in Users, p \in Periods : Cardinality(RowsOfKey(u, p)) <= 1
  /\ \A w \in Workers :
       (pc[w] = "done" /\ existedAtCall[w]) =>
          (result[w] = "already_exists" /\ CreatedNothing(w))

\* C1 amended: at most one Payslip row per (user, period) in every state, under
\* every interleaving of the calls; a call made when a Payslip of its
\* (user, period) exists fails and creates no row, with the 'already exists'
\* error when the period passed in is not locked and with the locked-period
\* error (checked first) when it is.
C1_AtMostOnePayslip ==
  /\ \A u \in Users, p \in Periods : Cardinality(RowsOfKey(u, p)) <= 1
  /\ \A w \in Workers :
       (pc[w] = "done" /\ existedAtCall[w]) =>
          /\ result[w] = (IF argLocked[w] THEN "locked" ELSE "already_exists")
          /\ CreatedNothing(w)

C1_Witness ==
  \E w \in Workers :
     /\ pc[w] = "done" /\ existedAtCall[w] /\ ~argLocked[w]
     /\ result[w] = "already_exists"
     /\ compensation[cu[w]] > 0
     /\ Cardinality(RowsOfKey(cu[w], cp[w])) = 1

\* C2: a generate_payslip call whose period has is_locked = TRUE fails with the
\* locked-period error and creates no Payslip row, whatever the user's
\* compensation, bonuses and attendance are.
C2_LockedCreatesNothing ==
  \A w \in Workers :
     (pc[w] = "done" /\ argLocked[w]) =>
        (result[w] = "locked" /\ CreatedNothing(w))

C2_Witness ==
  \E w \in Workers :
     /\ pc[w] = "done" /\ argLocked[w] /\ result[w] = "locked"
     /\ compensation[cu[w]] > 0
     /\ ~PayslipExists(cu[w], cp[w])

\* ---------------------------------------------- report distribution claims
Done(w) == mw[w].pc = "done"
ArchivesOf(w) == {a \in archives : a.by = mw[w].call}

\* the sent/archived marks of every committed row are those of the rows the
\* call of w found (NULL for a row that did not exist then)
MarksKept(w) ==
  \A r \in reports :
     IF r.id \in Ids(mpre[w])
       THEN \E q \in mpre[w] :
               q.id = r.id /\ q.sent_at = r.sent_at /\ q.archived_at = r.archived_at
       ELSE r.sent_at = 0 /\ r.archived_at = 0

\* C3: when the send step of send_csv_to_manager or send_payslip_for_manager
\* raises, the call raises to its caller, the archive step is not run and no
\* archive file of the call exists, and no report is marked sent or archived
\* (the marks are those found at the start of the call, unless another call
\* committed meanwhile).
C3_SendFailureLeavesUnsent ==
  \A w \in Workers :
     (Done(w) /\ mw[w].send = "failed") =>
        /\ mw[w].result \in {"sending_failed", "send_exception"}
        /\ mw[w].arch = "none"
        /\ ArchivesOf(w) = {}
        /\ mtx[w] = {}
        /\ (~mw[w].interf => MarksKept(w))

C3_Witness ==
  \E w \in Workers :
     /\ Done(w) /\ mw[w].send = "failed" /\ ~mw[w].interf
     /\ mw[w].rep # NoReport
     /\ \E r \in reports : r.id = mw[w].rep.id /\ r.sent_at # 0

\* C4 as stated: when the archive step raises (any error) after the e-mail was
\* sent, the call still returns its success result and the sent_at it set is in
\* the committed state.
C4_Original ==
  \A w \in Workers :
     (Done(w) /\ mw[w].send = "sent" /\ mw[w].arch \in {"ArchiveServiceError", "OSError"}) =>
        /\ mw[w].result = "ok"
        /\ mw[w].rep # NoReport =>
              \E r \in reports : r.id = mw[w].rep.id /\ r.sent_at # 0

\* C5 as stated: when the send step of send_csv_to_manager fails, a
\* GeneratedReport row of (MANAGER_CSV, period, manager) is in the persisted
\* store after the call.
C5_Original ==
  \A w \in Workers :
     (Done(w) /\ mw[w].op = "csv" /\ mw[w].send = "failed") =>
        \E r \in reports : r.type = "MANAGER_CSV"

\* C6: when the generation of the report (CSV or PDF) fails, the call ends with
\* an error, sends no e-mail and creates or modifies no GeneratedReport row.
C6_GenerationFailureRecordsNothing ==
  \A w \in Workers :
     (Done(w) /\ mw[w].gen = "failed") =>
        /\ mw[w].result \in {"csv_generation_failed", "PDFGenerationError"}
        /\ mw[w].send = "none"
        /\ mw[w].call \notin mailed
        /\ mtx[w] = {}
        /\ (~mw[w].interf => reports = mpre[w])

C6_Witness ==
  \E w \in Workers :
     /\ Done(w) /\ mw[w].gen = "failed" /\ ~mw[w].interf
     /\ mw[w].op = "pdf" /\ mw[w].rep # NoReport
     /\ mw[w].rep \in reports

\* C9 as stated: once two concurrent send_csv_to_manager executions for the
\* same manager and period have both finished (here: both returned their
\* result), exactly one GeneratedReport row exists for the key.
C9_Original ==
  (\A w \in Workers : Done(w) /\ mw[w].op = "csv" /\ mw[w].result = "ok") =>
     Cardinality({r \in reports : r.type = "MANAGER_CSV"}) = 1

\* C10 as stated: sent_at and archived_at of a GeneratedReport never change once
\* non-null, and a row with archived_at has sent_at, not later than archived_at.
C10_Original ==
  [][ /\ \A r \in reports : \A q \in reports' :
           q.id = r.id =>
              /\ r.sent_at # 0 => q.sent_at = r.sent_at
              /\ r.archived_at # 0 => q.archived_at = r.archived_at
      /\ \A q \in reports' :
           q.archived_at # 0 => (q.sent_at # 0 /\ q.sent_at <= q.archived_at) ]_vars

\* ---------------------------------------------------- generator claims
\* C7 as stated: after generate_pdf has returned or raised, the temporary
\* unprotected file it wrote is not on disk, whichever way it ended.
C7_Original == gp.pc = "done" => gp.temp \notin pfiles

\* the positions of the employees whose salary calculation succeeds
Succeeded == {i \in DOMAIN gc.employees : gc.employees[i] \in gc.paid}
\* the k-th of them, in input order
KthSucceeded(k) == CHOOSE i \in Succeeded : Cardinality({j \in Succeeded : j < i}) = k - 1
RowsAreTheSucceeded ==
  /\ Len(gc.rows) = Cardinality(Succeeded)
  /\ \A k \in 1..Len(gc.rows) : gc.rows[k] = gc.employees[KthSucceeded(k)]

\* C8 as stated: for a manager, generate_csv succeeds iff at least one
\* employee's calculation succeeds, and then has one row per such employee in
\* input order; otherwise it fails with CSVGenerationError.
C8_Original ==
  (gc.pc = "done" /\ gc.is_manager) =>
     /\ gc.status = "ok" <=> Succeeded # {}
     /\ gc.status # "ok" => gc.status = "CSVGenerationError"
     /\ gc.status = "ok" => RowsAreTheSucceeded

\* C8: for a manager, generate_csv succeeds iff at least one employee's
\* calculation succeeds and the report file can be written; on success the CSV
\* has exactly one row per employee whose calculation succeeded, in input order;
\* it fails with CSVGenerationError when the employee list is empty, when every
\* calculation fails, or when the file cannot be written.
C8_RowsOfSucceededEmployees ==
  (gc.pc = "done" /\ gc.is_manager) =>
     /\ gc.status = "ok" <=> (Succeeded # {} /\ gc.write_ok)
     /\ gc.status # "ok" => gc.status = "CSVGenerationError"
     /\ gc.status = "ok" => RowsAreTheSucceeded
     /\ (gc.employees = <<>> \/ Succeeded = {}) => gc.status = "CSVGenerationError"

C8_Witness ==
  /\ gc.pc = "done" /\ gc.is_manager
  /\ Len(gc.employees) = 3 /\ Cardinality(Succeeded) = 2
  /\ gc.employees[2] \notin gc.paid
  /\ gc.status = "ok" /\ Len(gc.rows) = 2

\* ---------------------------------------------------------- Bonus API claims
BonusesOfPeriod(S, p) == {b \in S : b.period = p}

\* C11 as stated: while a period is locked, no create, update (also of the
\* bonus's period) or delete of the Bonus API changes the set or the amounts
\* of the Bonus rows of that period.
C11_Original ==
  [][\A p \in Periods :
        is_locked[p] => BonusesOfPeriod(bonuses', p) = BonusesOfPeriod(bonuses, p)]_vars

\* ------------------------------------------------------ calculator claims
CalcDone(fn) == cc.pc = "done" /\ cc.fn = fn
\* the dates of [start, end] that fall on Monday..Friday
WeekdaysIn(start, end) == {d \in start..end : d % 7 \notin {5, 6}}
LeaveInWindow == cc.leave \cap (cc.start..cc.end)
BonusSum ==
  (IF [description |-> "bonus", amount |-> 20000] \in cc.bonus THEN 20000 ELSE 0)
  + (IF [description |-> "prime", amount |-> 12345] \in cc.bonus THEN 12345 ELSE 0)
\* r is amount / days rounded half-up to a whole number of cents
IsHalfUpQuotient(r, amount, days) ==
  IF days = 0 THEN r = 0
  ELSE 2 * days * r - days <= 2 * amount /\ 2 * amount < 2 * days * r + days

\* C12: calculate returns businessDays = the weekdays of [start, end],
\* unpaidDays = the UNPAID_LEAVE records dated in [start, end], unpaidDeduction =
\* round2(dailyRate * unpaidDays) with dailyRate = compensation / businessDays
\* rounded half-up (0 without business days), bonusesTotal = round2(sum of the
\* bonuses), netTotal = round2(compensation - unpaidDeduction + bonusesTotal);
\* 3000 with 21 business days, 2 unpaid days and a bonus of 200 gives 285.72
\* and 2914.28.
C12_CalculateFormula ==
  CalcDone("calculate") =>
    LET bd == Cardinality(WeekdaysIn(cc.start, cc.end))
        ud == Cardinality(LeaveInWindow)
        floor == IF bd = 0 THEN 0 ELSE cc.amount \div bd
    IN /\ cc.out.business_days = bd
       /\ cc.out.unpaid_days = ud
       /\ cc.out.bonuses_total = BonusSum
       /\ cc.out.compensation = cc.amount
       /\ \E r \in {floor, floor + 1} :
             /\ IsHalfUpQuotient(r, cc.amount, bd)
             /\ cc.out.unpaid_deduction = r * ud
       /\ cc.out.net_total = cc.amount - cc.out.unpaid_deduction + BonusSum
       /\ (cc.amount = 300000 /\ bd = 21 /\ ud = 2 /\ BonusSum = 20000) =>
             (cc.out.unpaid_deduction = 28572 /\ cc.out.net_total = 291428)

C12_Witness ==
  /\ CalcDone("calculate")
  /\ cc.amount = 300000 /\ cc.out.business_days = 21 /\ cc.out.unpaid_days = 2
  /\ cc.out.bonuses_total = 20000
  /\ cc.out.unpaid_deduction = 28572 /\ cc.out.net_total = 291428

\* C13: with business days and no UNPAID_LEAVE record of the user inside the
\* period window, calculate returns unpaidDeduction = 0 and netTotal =
\* compensation + bonusesTotal.
C13_NoLeaveNoDeduction ==
  (CalcDone("calculate") /\ WeekdaysIn(cc.start, cc.end) # {} /\ LeaveInWindow = {}) =>
     /\ cc.out.unpaid_deduction = 0
     /\ cc.out.net_total = cc.amount + cc.out.bonuses_total

C13_Witness ==
  /\ CalcDone("calculate") /\ cc.out.business_days > 0
  /\ LeaveInWindow = {} /\ cc.leave # {} /\ cc.bonus # {}
  /\ cc.out.unpaid_deduction = 0 /\ cc.out.net_total = cc.amount + cc.out.bonuses_total

\* C14: count_business_days(start, end) is the number of dates of [start, end]
\* on Monday..Friday, 0 when start > end, 5 for one Monday-to-Friday or
\* Monday-to-Sunday week.
C14_BusinessDays ==
  CalcDone("count_business_days") =>
     /\ cc.days = Cardinality(WeekdaysIn(cc.start, cc.end))
     /\ cc.start > cc.end => cc.days = 0
     /\ (cc.start % 7 = 0 /\ cc.end \in {cc.start + 4, cc.start + 6}) => cc.days = 5

C14_Witness ==
  /\ CalcDone("count_business_days")
  /\ cc.start = 7 /\ cc.end = 13 /\ cc.days = 5

\* C15: _quantize_money rounds to 2 fractional digits half-up (10.005 gives
\* 10.01), leaves a value of at most 2 decimals as it is, and is idempotent.
C15_QuantizeHalfUp ==
  CalcDone("quantize_money") =>
     /\ cc.x >= 0 => (10 * cc.q - 5 <= cc.x /\ cc.x < 10 * cc.q + 5)
     /\ cc.x < 0 => (10 * cc.q - 5 < cc.x /\ cc.x <= 10 * cc.q + 5)
     /\ cc.x = 10005 => cc.q = 1001
     /\ cc.x % 10 = 0 => 10 * cc.q = cc.x
     /\ quantize_money(10 * cc.q) = cc.q

C15_Witness == CalcDone("quantize_money") /\ cc.x = 10005 /\ cc.q = 1001

\* ------------------------------------------------------- batch claims
\* the users reached from the manager through active direct reports
RECURSIVE ReachedIn(_, _)
ReachedIn(S, n) ==
  IF n = 0 THEN S
  ELSE ReachedIn(S \cup {e \in team.active : team.manager[e] \in S}, n - 1)
ActiveReportsOfBoss == {e \in team.active : team.manager[e] = Boss}
SelectedSubordinates ==
  IF team.include_indirect THEN ReachedIn(ActiveReportsOfBoss, MaxTeam + 1)
  ELSE ActiveReportsOfBoss

\* C16: calculate_for_team for a manager returns exactly one entry per selected
\* subordinate (the active direct reports, or all transitive ones with
\* include_indirect), each with either a breakdown and no error or an error and
\* no breakdown; a failing calculate neither raises out of the batch nor
\* removes other employees' entries.
C16_OneEntryPerSubordinate ==
  (team.pc = "done" /\ team.is_manager) =>
     /\ team.raised = "none"
     /\ Len(team.results) = Cardinality(SelectedSubordinates)
     /\ {team.results[i].user : i \in DOMAIN team.results} = SelectedSubordinates
     /\ \A i \in DOMAIN team.results :
           LET r == team.results[i] IN
             /\ (r.breakdown # "None") # (r.error # "None")
             /\ (r.breakdown # "None") <=> (r.user \in team.paid)

C16_Witness ==
  /\ team.pc = "done" /\ team.is_manager /\ team.include_indirect
  /\ Len(team.results) = 2
  /\ team.manager[2] = 1 /\ team.manager[1] = Boss
  /\ team.results[1].error # "None" /\ team.results[2].breakdown # "None"

\* C17: generate_pdfs_for_team for a manager returns exactly one result entry
\* per employee of the input, each with exactly one of filepath and error; a
\* generate_pdf failure for one employee does not abort the batch and the
\* later employees are still processed.
C17_OneResultPerEmployee ==
  (batch.pc = "done" /\ batch.is_manager) =>
     /\ batch.raised = "none"
     /\ Len(batch.results) = Len(batch.employees)
     /\ \A i \in DOMAIN batch.employees :
           LET r == batch.results[i] IN
             /\ r.user = batch.employees[i]
             /\ (r.filepath # "None") # (r.error # "None")
             /\ (r.error # "None") <=> (batch.employees[i] \in batch.failing)

C17_Witness ==
  /\ batch.pc = "done" /\ batch.is_manager
  /\ Len(batch.employees) = 3
  /\ batch.results[1].error # "None"
  /\ batch.results[2].filepath # "None" /\ batch.results[3].filepath # "None"

\* ------------------------------------------------------- queue claims
\* the background runs enqueued or already executed for the current call
TasksOfCall == {t \in qc.tasks : t.by = qc.call}
RunsOfCall(mode) == {r \in qc.runs : r.by = qc.call /\ r.mode = mode}

\* C18: with asynchronous execution enabled queue_csv_to_manager enqueues
\* exactly one background run of send_csv_to_manager for the same arguments and
\* returns at once a result with status None and no attachments, whatever the
\* background run does later; with it disabled it runs send_csv_to_manager
\* synchronously and returns or raises exactly that call's outcome.
C18_QueueOrSendNow ==
  qc.pc = "done" =>
     IF qc.celery
       THEN /\ Cardinality(TasksOfCall) + Cardinality(RunsOfCall("task")) = 1
            /\ \A t \in TasksOfCall \cup RunsOfCall("task") :
                  t.include_indirect = qc.include_indirect
            /\ RunsOfCall("sync") = {}
            /\ qc.result = [kind |-> "returned", value |-> "EmailResult",
                            status |-> "None", attachments |-> 0]
       ELSE /\ TasksOfCall = {} /\ RunsOfCall("task") = {}
            /\ Cardinality(RunsOfCall("sync")) = 1
            /\ \A r \in RunsOfCall("sync") :
                  /\ r.include_indirect = qc.include_indirect
                  /\ IF r.outcome = "ok"
                       THEN qc.result.kind = "returned" /\ qc.result.status = "sent"
                       ELSE qc.result.kind = "raised" /\ qc.result.value = r.outcome

C18_Witness ==
  /\ qc.pc = "done" /\ qc.celery
  /\ \E r \in RunsOfCall("task") : r.outcome = "sending_failed"
  /\ qc.result.kind = "returned" /\ qc.result.status = "None"

\* ------------------------------------------- payslip validation claims
WrongReportType(w) == mw[w].rep # NoReport /\ mw[w].rep.type # "USER_PDF"
NeitherReportNorUser(w) == mw[w].rep = NoReport /\ ~mw[w].user
NoEmployeeEmail(w) == ~mw[w].has_email

\* C19: send_payslip_for_manager fails with an EmailServiceError before any PDF
\* generation, send, archive or report update when the report is not a USER_PDF
\* report, when neither report nor user is given, or when the employee's email
\* is empty, also if to_email is given.
C19_ValidationBeforeWork ==
  \A w \in Workers :
     (Done(w) /\ mw[w].op = "pdf"
        /\ (WrongReportType(w) \/ NeitherReportNorUser(w) \/ NoEmployeeEmail(w))) =>
        /\ mw[w].result = IF WrongReportType(w) THEN "report_must_be_user_pdf"
                          ELSE IF NeitherReportNorUser(w) THEN "provide_report_or_user"
                          ELSE "employee_email_missing"
        /\ mw[w].gen = "none" /\ mw[w].send = "none" /\ mw[w].arch = "none"
        /\ mw[w].call \notin mailed
        /\ ArchivesOf(w) = {}
        /\ mtx[w] = {}
        /\ (~mw[w].interf => reports = mpre[w])

C19_Witness ==
  \E w \in Workers :
     /\ Done(w) /\ mw[w].op = "pdf"
     /\ mw[w].rep # NoReport /\ mw[w].rep.type = "USER_PDF"
     /\ ~mw[w].has_email /\ mw[w].to_email
     /\ mw[w].result = "employee_email_missing"
     /\ ~mw[w].interf /\ reports = mpre[w]

\* ------------------------------------------------------ archive claims
\* the positions of the input paths that exist on disk
ExistingAt == {i \in DOMAIN az.files : az.files[i] \in az.existing}
KthExisting(k) == CHOOSE i \in ExistingAt : Cardinality({j \in ExistingAt : j < i}) = k - 1

\* C20: archive_files archives exactly the input paths that exist on disk and
\* returns files_count equal to their number; when none of the input paths
\* exists it fails with ArchiveServiceError and creates no archive file.
C20_ArchivesExistingFiles ==
  az.pc = "done" =>
     /\ az.raised = "none" =>
           /\ ExistingAt # {}
           /\ az.files_count = Cardinality(ExistingAt)
           /\ az.archive.written
           /\ Len(az.archive.entries) = Cardinality(ExistingAt)
           /\ \A k \in 1..Len(az.archive.entries) :
                 az.archive.entries[k] = az.files[KthExisting(k)]
     /\ (ExistingAt # {} /\ az.fs = "ok") => az.raised = "none"
     /\ ExistingAt = {} => (az.raised = "ArchiveServiceError" /\ ~az.archive.written)

C20_Witness ==
  /\ az.pc = "done" /\ az.raised = "none"
  /\ Len(az.files) = 3 /\ az.files_count = 2
  /\ az.files[2] \notin az.existing

\* ------------------------------------------------------- subordinate claims
\* the users reached from Boss by one or more manager links through users that
\* are all active
ActiveDescendants == ReachedIn(ActiveReportsOfBoss, MaxTeam + 1)

\* C21: get_all_subordinates(include_indirect=True) on a manager returns exactly
\* the users reachable from the manager by one or more direct_reports links
\* whose users are all active; on a user that is not a manager it returns the
\* empty set.
C21_ReachableActiveSubordinates ==
  team.pc = "returned" =>
     /\ (team.is_manager /\ team.include_indirect) => team.returned = ActiveDescendants
     /\ ~team.is_manager => team.returned = {}

C21_Witness ==
  /\ team.pc = "returned" /\ team.is_manager /\ team.include_indirect
  /\ Cardinality(team.returned) = 1
  /\ \E e \in Org \ team.active : e # Boss /\ team.manager[e] \in team.returned

\* C23: the loop of get_all_subordinates ends for every manager graph, cycles of
\* manager links included, and no user is expanded more than once.
C23_TerminatesOnCycles ==
  /\ [](\A e \in Org : team.expanded[e] <= 1)
  /\ (team.pc = "loop") ~> (team.pc = "returned")

\* a call that returned on a graph where Boss and a report manage each other
C23_Witness ==
  /\ team.pc = "returned" /\ team.is_manager /\ team.include_indirect
  /\ \E e \in team.returned : e # Boss /\ team.manager[Boss] = e /\ team.manager[e] = Boss
  /\ Boss \in team.returned

\* ------------------------------------------------------- pipeline claims
\* the statements of send_csv_to_manager after update_or_create, up to the end
\* of mark_archived
AfterPersist == {"send", "mark_sent", "archive", "mark_archived"}

\* the two executions overlapped: one of them committed while the other ran
Overlapped(w1, w2) == mw[w1].interf \/ mw[w2].interf

C22_OneInProgress ==
  \A w1 \in Workers : \A w2 \in Workers \ {w1} :
     ~(/\ mw[w1].op = "csv" /\ mw[w1].pc \in AfterPersist
       /\ mw[w2].op = "csv" /\ mw[w2].pc \in AfterPersist)

\* C22 as stated: at most one execution of the pipeline of a key is between its
\* persist step and its archive step at any time, and two concurrent triggers
\* for the same key do not both send the email.
C22_Original ==
  /\ C22_OneInProgress
  /\ \A w1 \in Workers : \A w2 \in Workers \ {w1} :
        ~(/\ mw[w1].op = "csv" /\ mw[w1].send = "sent"
          /\ mw[w2].op = "csv" /\ mw[w2].send = "sent"
          /\ Overlapped(w1, w2))

C24_Reused ==
  \E w \in Workers :
     /\ mw[w].op = "pdf" /\ mw[w].send = "sent" /\ mw[w].gen = "none"
     /\ mw[w].rep # NoReport /\ mw[w].file = mw[w].rep.file

C25_Original ==
  [][\A a \in archives : a \in archives']_vars

\* ------------------------------------------------------- payslip claims
\* C26: every persisted Payslip has net_total = compensation - unpaid_deduction
\* + bonuses_total, and the net_total of a payslip created by generate_payslip
\* is the net_total calculate returned to that call.
C26_NetTotalStored ==
  /\ \A r \in payslips :
        r.net_total = r.compensation - r.unpaid_deduction + r.bonuses_total
  /\ \A w \in Workers :
        (pc[w] = "done" /\ result[w] = "ok") =>
           /\ RowsOfCall(w) # {}
           /\ \A r \in RowsOfCall(w) : r.net_total = breakdown[w].net_total

C26_Witness ==
  \E w \in Workers :
     /\ pc[w] = "done" /\ result[w] = "ok"
     /\ \E r \in RowsOfCall(w) :
           r.net_total # r.compensation /\ (r.bonuses_total > 0 \/ r.unpaid_deduction > 0)

\* ------------------------------------------------------- archive mark claims
\* C27 as stated: a call whose archive step failed leaves the archived_at of its
\* report as it was (null for a row the call created); archived_at is set only
\* by a call whose archive step created an archive.
C27_Original ==
  \A w \in Workers :
     (Done(w) /\ ~mw[w].interf /\ mw[w].arch \notin {"ok", "none"}) =>
        \A r \in reports :
           r.id = mw[w].rep.id =>
              \/ r.archived_at = 0
              \/ \E q \in mpre[w] : q.id = r.id /\ q.archived_at = r.archived_at

\* ------------------------------------------------------- deduction claims
\* C28 as stated: for a compensation > 0, businessDays > 0 and 0 <= unpaidDays
\* <= businessDays the unpaidDeduction of calculate does not exceed the
\* compensation, so without bonuses netTotal >= 0.
C28_Original ==
  (/\ CalcDone("calculate") /\ cc.amount > 0 /\ cc.out.business_days > 0
   /\ cc.out.unpaid_days <= cc.out.business_days) =>
     /\ cc.out.unpaid_deduction <= cc.out.compensation
     /\ cc.bonus = {} => cc.out.net_total >= 0

\* C30 as stated: in every SalaryBreakdown returned by calculate unpaid_days <=
\* business_days, so the 'Working Days' of the CSV row, business_days -
\* unpaid_days, is never negative.
C30_Original ==
  CalcDone("calculate") =>
     /\ cc.out.unpaid_days <= cc.out.business_days
     /\ working_days(cc.out) >= 0

\* ------------------------------------------------------- period lock claims
\* C29: after any sequence of lock(user) and unlock() calls on a PayrollPeriod,
\* is_locked = false implies that locked_at and locked_by are null; lock on a
\* locked period and unlock on an unlocked one change nothing, so the original
\* locker and lock time are kept.
C29_LockFields ==
  /\ [](~pp.is_locked => (pp.locked_at = 0 /\ pp.locked_by = NoUser))
  /\ [][(pp'.calls = pp.calls + 1 /\
            ((pp'.op = "lock" /\ pp.is_locked) \/ (pp'.op = "unlock" /\ ~pp.is_locked))) =>
           /\ pp'.is_locked = pp.is_locked
           /\ pp'.locked_at = pp.locked_at
           /\ pp'.locked_by = pp.locked_by]_vars

\* a second lock by another user on a period that stays locked by the first,
\* after an earlier lock and unlock
C29_Witness ==
  /\ pp.op = "lock" /\ pp.is_locked /\ pp.calls = 4
  /\ pp.locked_at = 3 /\ pp.locked_by = 1

====
